---- MODULE Spec2Model ----
(***************************************************************************)
(* Location tracking and route refresh of the Medisync application.        *)
(*                                                                         *)
(*   MapDirections   (responder screen)   src/unnamed/part_000             *)
(*   PatientMapView  (patient screen)     src/src/PatientMap.tsx           *)
(*   HospitalDashboard.updateAlertStatus  src/src/HospitalDashboard.tsx    *)
(*   the "alert" table row shared by both screens                          *)
(*   the notification tap that opens MapDirections   src/App.tsx           *)
(*                                                                         *)
(* Both screens are React function components.  A handler that a          *)
(* component registers (a position callback, a change listener, an effect  *)
(* cleanup) reads the state of the render that created it, not the state   *)
(* current when it runs; the model keeps that captured state with every    *)
(* registered handler.  A state setter called after the component was      *)
(* unmounted changes nothing.  Every await is a separate step.             *)
(*                                                                         *)
(* Positions lie on one meridian; a latitude is a whole number of metres   *)
(* of arc north of the equator.  On a meridian the haversine distance is   *)
(* the arc between the two latitudes, so distances are whole metres.       *)
(***************************************************************************)
EXTENDS Integers, Sequences, FiniteSets, Bags, TLC

\* ------------------------------------------------------------------ bounds
MaxTrackers == 2      \* startLocationTracking calls over one screen session
MaxInFlight == 3      \* directions requests of one screen in flight at once
MaxWrites == 1        \* position writes of one responder in flight at once
MaxEvents == 2        \* change notifications queued for one channel
MaxSessions == 2      \* runs of the patient view's [alertId] effect

\* ------------------------------------------------------- program constants
RouteMinIntervalMs == 15000   \* shouldUpdateRoute / PatientMapView.getDirections
RouteMinDistanceM == 30       \* 0.03 km
UPDATE_INTERVAL_MS == 3000
WatchDelayMs == 1000          \* setTimeout(..., 1000) before watchPositionAsync
DistanceIntervalM == 10       \* watchPositionAsync distanceInterval
FallbackMetresPerMinute == 500 \* 0.5 km per minute

\* ---------------------------------------------------------- value domains
Absent == 0 - 1               \* null / undefined
NaN == 0 - 2                  \* the result of parseFloat on a non-number
Garbage == 0 - 3              \* an input string that is not a number
Epoch == 100 * 1000           \* Date.now() at the start of a run, in ms
\* The instants a run visits, in ms after Epoch.
RouteInstants == {0, 1000, 16000}
TrackInstants == {0, 1000, 3000}
Meridian == 7                 \* the longitude shared by all positions
RouteLats == {0, 10, 50}      \* responder latitudes (metres of arc)
TrackLats == {10, 50}
PatientLats == {0, 10}
SyncInstants == {1000}
SyncLats == {50}
\* The params of a tapped notification: data.status is not sent.
SyncProps == {[alertId |-> 1, status |-> "responding", dest |-> <<1020, Meridian>>]}
PatientAlertIds == {Absent, 1, 2}
AlertIds == {1, 2}

NoLoc == [latitude |-> Absent, longitude |-> Absent]
NoInfo == [distance |-> <<>>, duration |-> <<>>]

\* JavaScript truthiness of a number-or-undefined value.
Truthy(x) == x # Absent /\ x # 0 /\ x # NaN

\* parseFloat: a number parses to itself, any other input to NaN.
parseFloat(x) == IF x >= 0 THEN x ELSE NaN

isNaN(x) == x = NaN

Abs(x) == IF x < 0 THEN 0 - x ELSE x

\* getDistanceFromLatLonInKm on one meridian, in metres.
getDistanceFromLatLonInKm(lat1, lon1, lat2, lon2) == Abs(lat2 - lat1)

\* Math.ceil(n / d) for n >= 0, d > 0.
Ceil(n, d) == (n + d - 1) \div d

\* distance.toFixed(1) of a distance in metres, as tenths of a kilometre.
toFixed1(metres) == (metres + 50) \div 100

\* ------------------------------------------------- the directions service
Outcomes == {"OK", "ZERO_RESULTS", "network", "noroutes", "nolegs"}

\* The decoded overview polyline of an OK response: [lat, lng] pairs.
Polyline(start, end) ==
    << <<start.latitude, start.longitude>>,
       <<(start.latitude + end.latitude) \div 2, start.longitude>>,
       <<end.latitude, end.longitude>> >>

\* The first leg's distance.text and duration.text of an OK response.
LegInfo(start, end) ==
    [distance |-> <<"leg", start.latitude, end.latitude>>,
     duration |-> <<"leg mins", start.latitude, end.latitude>>]

\* RouteCoords reading a point as [lng, lat].
RouteCoordsSwapped(points) ==
    [i \in 1..Len(points) |-> [latitude |-> points[i][2], longitude |-> points[i][1]]]

\* points.map(point => ({latitude: point[0], longitude: point[1]}))
RouteCoords(points) ==
    [i \in 1..Len(points) |-> [latitude |-> points[i][1], longitude |-> points[i][2]]]

\* FallbackPoints leaving no route.
FallbackPointsNone(start, end) == <<>>

\* fallbackDirections: the straight line from start to end.
FallbackPoints(start, end) ==
    << [latitude |-> start.latitude, longitude |-> start.longitude],
       [latitude |-> end.latitude, longitude |-> end.longitude] >>

\* FallbackInfo with the estimate rounded down instead of up.
FallbackInfoFloor(start, end) ==
    LET distance == getDistanceFromLatLonInKm(start.latitude, start.longitude,
                                              end.latitude, end.longitude)
    IN [distance |-> <<"km (straight line)", toFixed1(distance)>>,
        duration |-> <<"mins (estimate)", (distance * 60) \div FallbackMetresPerMinute>>]

FallbackInfo(start, end) ==
    LET distance == getDistanceFromLatLonInKm(start.latitude, start.longitude,
                                              end.latitude, end.longitude)
    IN [distance |-> <<"km (straight line)", toFixed1(distance)>>,
        duration |-> <<"mins (estimate)", Ceil(distance * 60, FallbackMetresPerMinute)>>]

\* ------------------------------------------------------------- variables
VARIABLES
    now,            \* Date.now()
    alert,          \* the rows of the "alert" table, by id
    md,             \* MapDirections: the component's state (useState)
    mdProps,        \* MapDirections: alertId, status, destination props
    mdRef,          \* MapDirections: alertIdRef, lastUpdateTimeRef
    mdScreen,       \* MapDirections: "closed", "mounted" or "unmounted"
    mdMap,          \* the last camera command the responder's MapView got
    mdPermission,   \* outcome of requestForegroundPermissionsAsync
    trackers,       \* startLocationTracking calls that have not finished
    watchers,       \* active watchPositionAsync subscriptions
    nextTracker,    \* number of the next startLocationTracking call
    mdFetches,      \* directions requests of the responder in flight (bag)
    mdWrites,       \* position writes of the responder in flight
    notices,        \* Alert.alert titles shown so far
    unhandled,      \* promise rejections no handler caught
    pmv,            \* PatientMapView: the component's state (useState)
    pmvAlertId,     \* PatientMapView: the alertId prop
    pmvScreen,      \* PatientMapView: "closed", "mounted" or "unmounted"
    pmvMap,         \* the last camera command the patient's MapView got
    channels,       \* realtime channels subscribed to the alert table
    selects,        \* fetchAlertData calls awaiting the row
    pmvFetches,     \* directions requests of the patient view in flight (bag)
    nextSession,    \* number of the next run of the [alertId] effect
    dashboard,      \* HospitalDashboard: updateAlertStatus calls in flight
    gate,           \* one refresh decision: its inputs and both screens' answers
    rival,          \* MapDirections on a second hospital's device
    sos,            \* sendSOSAlerts: the alertData of one call and its progress
    boards          \* HospitalDashboard of each hospital: its copy of alert 1

mdVars == <<md, mdProps, mdRef, mdScreen, mdMap, mdPermission, trackers,
            watchers, nextTracker, mdFetches, mdWrites>>

pmvVars == <<pmv, pmvAlertId, pmvScreen, pmvMap, selects, pmvFetches, nextSession>>

vars == <<now, alert, md, mdProps, mdRef, mdScreen, mdMap, mdPermission,
          trackers, watchers, nextTracker, mdFetches, mdWrites, notices,
          unhandled, pmv, pmvAlertId, pmvScreen, pmvMap, channels, selects,
          pmvFetches, nextSession, dashboard, gate, rival, sos,
          boards>>

\* ------------------------------------------------------ the alert table
InitialRow(id, lat) ==
    [id |-> id, latitude |-> lat, longitude |-> Meridian, status |-> "active",
     ambulance_latitude |-> Absent, ambulance_longitude |-> Absent,
     ambulance_last_updated |-> Absent]

InitialAlert == [id \in AlertIds |-> InitialRow(id, id * 1020)]

\* The realtime service queues the new row on every channel filtered to it.
Publish(chs, row) ==
    {IF ch.alertId = row.id THEN [ch EXCEPT !.queue = Append(@, row)] ELSE ch : ch \in chs}

\* Every channel filtered to the row has room for one more notification.
CanPublish(id) == \A ch \in channels : ch.alertId = id => Len(ch.queue) < MaxEvents

\* The store commits an update of row id and notifies the subscribers.
UpdateRow(id, row) ==
    /\ CanPublish(id)
    /\ alert' = [alert EXCEPT ![id] = row]
    /\ channels' = Publish(channels, row)

\* ------------------------------------------------------ MapDirections
\* The params navigation hands the screen (alertId, status, destination).
\* RouteProps: a tapped notification of an alert not yet answered; the
\* incident's coordinates change, or do not parse.
RouteProps ==
    { [alertId |-> 1, status |-> "active", dest |-> <<1020, Meridian>>],
      [alertId |-> 1, status |-> "active", dest |-> <<2040, Meridian>>],
      [alertId |-> 1, status |-> "active", dest |-> <<Garbage, Meridian>>] }
\* TrackProps: the screen opened without destination coordinates.
TrackProps ==
    { [alertId |-> Absent, status |-> "active", dest |-> <<Absent, Absent>>],
      [alertId |-> 1, status |-> "active", dest |-> <<Absent, Absent>>],
      [alertId |-> 1, status |-> "responding", dest |-> <<Absent, Absent>>],
      [alertId |-> 2, status |-> "responding", dest |-> <<Absent, Absent>>] }

InitialMd ==
    [origin |-> NoLoc, destination |-> NoLoc, currentLocation |-> NoLoc,
     routeCoordinates |-> <<>>, routeInfo |-> NoInfo, loading |-> FALSE,
     locationSubscription |-> 0, followUserLocation |-> TRUE,
     lastRouteFetchTime |-> 0, updateError |-> FALSE]

\* What the handlers created in a render read from that render's state.
Closure(r) ==
    [destination |-> r.destination, origin |-> r.origin,
     routeCoordinatesLength |-> Len(r.routeCoordinates),
     lastRouteFetchTime |-> r.lastRouteFetchTime,
     followUserLocation |-> r.followUserLocation,
     locationSubscription |-> r.locationSubscription]

InitialMap == [kind |-> "initialRegion", coords |-> <<>>]

NewLocation(lat, lon) == [latitude |-> lat, longitude |-> lon]

\* A state setter: ignored once the component is unmounted.
Set(c, field, value) == IF c.mounted THEN [c EXCEPT !.md[field] = value] ELSE c

\* mapRef.current is null once the component is unmounted.
MapCommand(c, kind, coords) ==
    IF c.mounted THEN [c EXCEPT !.map = [kind |-> kind, coords |-> coords]] ELSE c

\* shouldUpdateRoute with "or" in place of "and".
shouldUpdateRouteEither(origin, routeCoordinatesLength, lastRouteFetchTime, newLocation, currentTime) ==
    IF origin = NoLoc \/ routeCoordinatesLength = 0 THEN TRUE
    ELSE LET distance == getDistanceFromLatLonInKm(newLocation.latitude, newLocation.longitude,
                                                   origin.latitude, origin.longitude)
         IN currentTime - lastRouteFetchTime > RouteMinIntervalMs
            \/ distance > RouteMinDistanceM

shouldUpdateRoute(origin, routeCoordinatesLength, lastRouteFetchTime, newLocation, currentTime) ==
    IF origin = NoLoc \/ routeCoordinatesLength = 0 THEN TRUE
    ELSE LET distance == getDistanceFromLatLonInKm(newLocation.latitude, newLocation.longitude,
                                                   origin.latitude, origin.longitude)
         IN currentTime - lastRouteFetchTime > RouteMinIntervalMs
            /\ distance > RouteMinDistanceM

\* getDirections aborting the requests still in flight before it sends.
getDirectionsCancelling(c, start, end) ==
    IF start = NoLoc \/ end = NoLoc THEN c
    ELSE LET c1 == Set(c, "loading", TRUE)
             c2 == Set(c1, "lastRouteFetchTime", c.now)
         IN [c2 EXCEPT !.fetches = SetToBag({[start |-> start, end |-> end]})]

\* getDirections up to its first await: the request leaves.
getDirections(c, start, end) ==
    IF start = NoLoc \/ end = NoLoc THEN c
    ELSE LET c1 == Set(c, "loading", TRUE)
             c2 == Set(c1, "lastRouteFetchTime", c.now)
         IN [c2 EXCEPT !.fetches = @ (+) SetToBag({[start |-> start, end |-> end]})]

\* fallbackDirections without its setRouteInfo.
fallbackDirectionsCoordsOnly(c, start, end) ==
    Set(c, "routeCoordinates", FallbackPoints(start, end))

fallbackDirections(c, start, end) ==
    Set(Set(c, "routeCoordinates", FallbackPoints(start, end)),
        "routeInfo", FallbackInfo(start, end))

\* getDirections from the response on: try, catch and finally.
getDirectionsResume(c, start, end, outcome) ==
    LET routeCoords == RouteCoords(Polyline(start, end))
        ok == MapCommand(Set(Set(c, "routeCoordinates", routeCoords),
                             "routeInfo", LegInfo(start, end)),
                         "fitToCoordinates", routeCoords)
        done == CASE outcome = "OK" -> ok
                  [] outcome = "nolegs" ->
                        fallbackDirections(Set(c, "routeCoordinates", routeCoords), start, end)
                  [] OTHER -> fallbackDirections(c, start, end)
    IN Set(done, "loading", FALSE)

\* startLocationTracking up to its first await (getCurrentPositionAsync).
startLocationTracking(c, r) ==
    [c EXCEPT !.trackers = @ \cup {[id |-> c.next, phase |-> "fix", due |-> 0,
                                     closure |-> Closure(r)]},
              !.next = @ + 1]

\* updateWithCurrentLocation without the status test.
EffectUpdateAnyStatus(c, r) ==
    IF c.props.alertId # Absent /\ r.currentLocation # NoLoc
    THEN [c EXCEPT !.writes = @ \cup {[id |-> c.props.alertId,
                                        ambulance_latitude |-> r.currentLocation.latitude,
                                        ambulance_longitude |-> r.currentLocation.longitude,
                                        ambulance_last_updated |-> c.now]}]
    ELSE c

\* updateWithCurrentLocation held back once an update has failed.
EffectUpdateUnlessError(c, r) ==
    IF c.props.alertId # Absent /\ c.props.status = "responding"
       /\ r.currentLocation # NoLoc /\ ~r.updateError
    THEN [c EXCEPT !.writes = @ \cup {[id |-> c.props.alertId,
                                        ambulance_latitude |-> r.currentLocation.latitude,
                                        ambulance_longitude |-> r.currentLocation.longitude,
                                        ambulance_last_updated |-> c.now]}]
    ELSE c

\* useEffect([alertId, status, currentLocation]): updateWithCurrentLocation.
EffectUpdateWithCurrentLocation(c, r) ==
    IF c.props.alertId # Absent /\ c.props.status = "responding"
       /\ r.currentLocation # NoLoc
    THEN [c EXCEPT !.writes = @ \cup {[id |-> c.props.alertId,
                                        ambulance_latitude |-> r.currentLocation.latitude,
                                        ambulance_longitude |-> r.currentLocation.longitude,
                                        ambulance_last_updated |-> c.now]}]
    ELSE c

\* useEffect([alertId]): restart tracking for a new alert id.
EffectAlertId(c, r) ==
    IF c.props.alertId = Absent THEN c
    ELSE IF c.props.alertId # c.ref.alertIdRef
    THEN LET c1 == [c EXCEPT !.ref = [alertIdRef |-> c.props.alertId,
                                      lastUpdateTimeRef |-> 0]]
             c2 == IF r.locationSubscription # 0
                   THEN Set([c1 EXCEPT !.watchers =
                                {w \in @ : w.id # r.locationSubscription}],
                            "locationSubscription", 0)
                   ELSE c1
         IN startLocationTracking(c2, r)
    ELSE c

\* The destination props name a position that parses.
DestinationValid(props) ==
    /\ Truthy(props.dest[1]) /\ Truthy(props.dest[2])
    /\ ~isNaN(parseFloat(props.dest[1])) /\ ~isNaN(parseFloat(props.dest[2]))

\* useEffect([destinationLatitude, destinationLongitude, origin]).
EffectDestination(c, r) ==
    IF Truthy(c.props.dest[1]) /\ Truthy(c.props.dest[2])
    THEN LET lat == parseFloat(c.props.dest[1])
             lng == parseFloat(c.props.dest[2])
             newDestination == NewLocation(lat, lng)
         IN IF ~isNaN(lat) /\ ~isNaN(lng)
            THEN LET c1 == Set(c, "destination", newDestination)
                     c2 == IF r.origin # NoLoc
                           THEN getDirections(c1, r.origin, newDestination)
                           ELSE c1
                 IN IF r.origin # NoLoc
                    THEN MapCommand(c2, "fitToCoordinates", <<r.origin, newDestination>>)
                    ELSE c2
            ELSE c
    ELSE c

\* useEffect([origin, destination]).
EffectRoute(c, r) ==
    IF r.origin # NoLoc /\ r.destination # NoLoc
    THEN getDirections(c, r.origin, r.destination)
    ELSE c

\* The effects React runs after a handler changed state or props: those of
\* the render that follows it, in source order, then those of the render
\* that the first render's setDestination causes.  ch names the changed
\* dependencies (objects change by identity).
RunEffects(c, ch) ==
    IF ~c.mounted THEN c
    ELSE LET r == c.md
             c1 == IF ch.alertId \/ ch.status \/ ch.currentLocation
                   THEN EffectUpdateWithCurrentLocation(c, r) ELSE c
             c2 == IF ch.alertId THEN EffectAlertId(c1, r) ELSE c1
             c3 == IF ch.dest \/ ch.origin THEN EffectDestination(c2, r) ELSE c2
             c4 == IF ch.origin THEN EffectRoute(c3, r) ELSE c3
             destinationSet == (ch.dest \/ ch.origin) /\ DestinationValid(c.props)
         IN IF destinationSet THEN EffectRoute(c4, c4.md) ELSE c4

\* The responder's state as one value, for the handlers to thread through.
MdContext ==
    [md |-> md, ref |-> mdRef, map |-> mdMap, fetches |-> mdFetches,
     writes |-> mdWrites, trackers |-> trackers, watchers |-> watchers,
     next |-> nextTracker, mounted |-> (mdScreen = "mounted"),
     props |-> mdProps, now |-> now]

\* The state after a handler, within the model's bounds.
MdCommit(c) ==
    /\ BagCardinality(c.fetches) <= MaxInFlight
    /\ Cardinality(c.writes) <= MaxWrites
    /\ c.next <= MaxTrackers + 1
    /\ md' = c.md
    /\ mdRef' = c.ref
    /\ mdMap' = c.map
    /\ mdFetches' = c.fetches
    /\ mdWrites' = c.writes
    /\ trackers' = c.trackers
    /\ watchers' = c.watchers
    /\ nextTracker' = c.next

NoChange == [alertId |-> FALSE, status |-> FALSE, currentLocation |-> FALSE,
             dest |-> FALSE, origin |-> FALSE]
AllChanged == [alertId |-> TRUE, status |-> TRUE, currentLocation |-> TRUE,
               dest |-> TRUE, origin |-> TRUE]
LocationChanged == [NoChange EXCEPT !.currentLocation = TRUE, !.origin = TRUE]

\* The component as constructed with props p: first render and its effects
\* (alertIdRef = useRef(alertId); the permission request is left pending).
MdMountWith(p) ==
    LET c0 == [md |-> InitialMd, ref |-> [alertIdRef |-> p.alertId, lastUpdateTimeRef |-> 0],
               map |-> InitialMap, fetches |-> EmptyBag, writes |-> {},
               trackers |-> {}, watchers |-> {}, next |-> 1, mounted |-> TRUE,
               props |-> p, now |-> now]
    IN /\ mdScreen' = "mounted"
       /\ mdProps' = p
       /\ mdPermission' = "pending"
       /\ MdCommit(RunEffects(c0, AllChanged))

MdMount(P) ==
    /\ mdScreen = "closed"
    /\ \E p \in P : MdMountWith(p)
    /\ UNCHANGED <<gate, rival, sos, boards, now, alert, notices, unhandled,
                   channels, pmvVars, dashboard>>

\* requestForegroundPermissionsAsync resolves (the mount effect resumes).
MdPermissionResult ==
    /\ mdScreen # "closed"
    /\ mdPermission = "pending"
    /\ \E status \in {"granted", "denied"} :
         /\ mdPermission' = status
         /\ IF status # "granted"
            THEN /\ notices' = notices \cup {"Location Permission Denied"}
                 /\ UNCHANGED <<md, mdRef, mdMap, mdFetches, mdWrites, trackers,
                                watchers, nextTracker>>
            ELSE /\ notices' = notices
                 /\ IF mdRef.alertIdRef # Absent
                    THEN MdCommit(startLocationTracking(MdContext, InitialMd))
                    ELSE MdCommit(MdContext)
    /\ UNCHANGED <<gate, rival, sos, boards, now, alert, mdProps, mdScreen, unhandled,
                   channels, pmvVars, dashboard>>

\* getCurrentPositionAsync settles for tracker t; the device gives a fix
\* only while the permission is granted.
MdInitialFix(L) ==
    \E t \in trackers :
      /\ t.phase = "fix"
      /\ \/ /\ mdPermission = "granted"
            /\ \E lat \in L :
                 LET newLocation == NewLocation(lat, Meridian)
                     c0 == [MdContext EXCEPT !.trackers =
                              (@ \ {t}) \cup {[t EXCEPT !.phase = "timer",
                                                          !.due = now + WatchDelayMs]}]
                     c1 == Set(Set(c0, "currentLocation", newLocation),
                               "origin", newLocation)
                 IN MdCommit(RunEffects(c1, LocationChanged))
            /\ notices' = notices
         \/ /\ MdCommit([MdContext EXCEPT !.trackers = @ \ {t}])
            /\ notices' = notices \cup {"Location Error"}
      /\ UNCHANGED <<gate, rival, sos, boards, now, alert, mdProps, mdScreen, mdPermission, unhandled,
                   channels, pmvVars, dashboard>>

\* The 1 s timer of tracker t fires and watchPositionAsync settles.
MdWatchStart ==
    \E t \in trackers :
      /\ t.phase = "timer"
      /\ now >= t.due
      /\ \/ /\ mdPermission = "granted"
            /\ LET c0 == [MdContext EXCEPT
                            !.trackers = @ \ {t},
                            !.watchers = @ \cup {[id |-> t.id, closure |-> t.closure,
                                                  last |-> Absent]}]
               IN MdCommit(Set(c0, "locationSubscription", t.id))
            /\ unhandled' = unhandled
         \/ /\ MdCommit([MdContext EXCEPT !.trackers = @ \ {t}])
            /\ unhandled' = unhandled \cup {"watchPositionAsync"}
      /\ UNCHANGED <<gate, rival, sos, boards, now, alert, mdProps, mdScreen, mdPermission, notices,
                   channels, pmvVars, dashboard>>

\* The device reports a fix to the callback of subscription w: its first
\* fix, or one at least distanceInterval from the last it reported.
MdFix(L) ==
    /\ \E w \in watchers, lat \in L :
         /\ w.last = Absent \/ Abs(lat - w.last) >= DistanceIntervalM
         /\ LET newLoc == NewLocation(lat, Meridian)
                cl == w.closure
                c0 == [MdContext EXCEPT !.watchers =
                          (@ \ {w}) \cup {[w EXCEPT !.last = lat]}]
                c1 == Set(Set(c0, "currentLocation", newLoc), "origin", newLoc)
                c2 == IF cl.followUserLocation
                      THEN MapCommand(c1, "animateToRegion", <<newLoc>>) ELSE c1
                c3 == IF cl.destination # NoLoc
                         /\ shouldUpdateRoute(cl.origin, cl.routeCoordinatesLength,
                                              cl.lastRouteFetchTime, newLoc, now)
                      THEN getDirections(c2, newLoc, cl.destination) ELSE c2
            IN MdCommit(RunEffects(c3, LocationChanged))
    /\ UNCHANGED <<gate, rival, sos, boards, now, alert, mdProps, mdScreen, mdPermission, notices, unhandled,
                   channels, pmvVars, dashboard>>

\* Navigation hands the mounted screen new params.
MdSetParams(P) ==
    /\ mdScreen = "mounted"
    /\ \E p \in P \ {mdProps} :
         /\ mdProps' = p
         /\ MdCommit(RunEffects([MdContext EXCEPT !.props = p],
                [alertId |-> p.alertId # mdProps.alertId,
                 status |-> p.status # mdProps.status,
                 currentLocation |-> FALSE,
                 dest |-> p.dest # mdProps.dest,
                 origin |-> FALSE]))
    /\ UNCHANGED <<gate, rival, sos, boards, now, alert, mdScreen, mdPermission, notices, unhandled,
                   channels, pmvVars, dashboard>>

\* A directions request settles and getDirections resumes.
MdDirectionsResponse ==
    \E f \in BagToSet(mdFetches), outcome \in Outcomes :
      MdCommit(getDirectionsResume(
                 [MdContext EXCEPT !.fetches = @ (-) SetToBag({f})],
                 f.start, f.end, outcome))
    /\ UNCHANGED <<gate, rival, sos, boards, now, alert, mdProps, mdScreen, mdPermission, notices, unhandled,
                   channels, pmvVars, dashboard>>

\* The row update of a position write, as the store applies it.
RowWithAmbulance(row, w) ==
    [row EXCEPT !.ambulance_latitude = w.ambulance_latitude,
                !.ambulance_longitude = w.ambulance_longitude,
                !.ambulance_last_updated = w.ambulance_last_updated]

\* A position write settles: applied by the store, or failed.
MdWriteDone ==
    \E w \in mdWrites :
      \/ /\ UpdateRow(w.id, RowWithAmbulance(alert[w.id], w))
         /\ MdCommit([MdContext EXCEPT !.writes = @ \ {w}])
      \/ /\ UNCHANGED <<alert, channels>>
         /\ MdCommit(Set([MdContext EXCEPT !.writes = @ \ {w}], "updateError", TRUE))
    /\ UNCHANGED <<gate, rival, sos, boards, now, mdProps, mdScreen, mdPermission, notices, unhandled, pmvVars, dashboard>>

\* The cleanup of the mount effect: it reads the first render's state.
MdUnmountCleanup(c) ==
    LET locationSubscription == Closure(InitialMd).locationSubscription
    IN IF locationSubscription # 0
       THEN [c EXCEPT !.watchers = {w \in @ : w.id # locationSubscription}]
       ELSE c

MdUnmount ==
    /\ mdScreen = "mounted"
    /\ mdScreen' = "unmounted"
    /\ MdCommit(MdUnmountCleanup(MdContext))
    /\ UNCHANGED <<gate, rival, sos, boards, now, alert, mdProps, mdPermission, notices, unhandled,
                   channels, pmvVars, dashboard>>

Tick(I) ==
    /\ \E o \in I : Epoch + o > now /\ now' = Epoch + o
    /\ UNCHANGED <<gate, rival, sos, boards, alert, mdVars, notices, unhandled, channels, pmvVars, dashboard>>

\* ------------------------------------------------------ PatientMapView
InitialPmv ==
    [alertStatus |-> "", isAmbulanceAssigned |-> FALSE,
     patientLocation |-> NoLoc, ambulanceLocation |-> NoLoc,
     routeCoordinates |-> <<>>, routeInfo |-> NoInfo, loading |-> TRUE,
     lastRouteFetchTime |-> 0, alertDetails |-> Absent, lastUpdated |-> Absent]

PmvContext ==
    [pmv |-> pmv, map |-> pmvMap, fetches |-> pmvFetches,
     mounted |-> (pmvScreen = "mounted"), alertId |-> pmvAlertId, now |-> now]

PmvCommit(c) ==
    /\ BagCardinality(c.fetches) <= MaxInFlight
    /\ pmv' = c.pmv
    /\ pmvMap' = c.map
    /\ pmvFetches' = c.fetches

\* A state setter of the patient view: ignored once it is unmounted.
PSet(c, field, value) == IF c.mounted THEN [c EXCEPT !.pmv[field] = value] ELSE c

\* The MapView (and mapRef.current) exists only in the render without the
\* loading and "No Alert Selected" placeholders.
PMapCommand(c, kind, coords) ==
    IF c.mounted /\ ~c.pmv.loading /\ c.alertId # Absent
    THEN [c EXCEPT !.map = [kind |-> kind, coords |-> coords]] ELSE c

\* PatientMapView.getDirections: "Skipping route update - too soon after
\* last update".
TooSoon(currentTime, lastRouteFetchTime) ==
    currentTime - lastRouteFetchTime < RouteMinIntervalMs

\* PatientGetDirections with setLastRouteFetchTime moved above the time test.
PatientGetDirectionsStampFirst(c, start, end, lastRouteFetchTime, session) ==
    IF start = NoLoc \/ end = NoLoc THEN c
    ELSE LET currentTime == c.now
             stamped == PSet(c, "lastRouteFetchTime", currentTime)
         IN IF TooSoon(currentTime, lastRouteFetchTime) THEN stamped
            ELSE [stamped EXCEPT
                     !.fetches = @ (+) SetToBag({[start |-> start, end |-> end,
                                                  session |-> session]})]

\* PatientMapView.getDirections up to its await; lastRouteFetchTime is the
\* value of the render that created the caller.  session tags the request
\* with the run of the [alertId] effect that issued it.
PatientGetDirections(c, start, end, lastRouteFetchTime, session) ==
    IF start = NoLoc \/ end = NoLoc THEN c
    ELSE LET currentTime == c.now
         IN IF TooSoon(currentTime, lastRouteFetchTime) THEN c
            ELSE [PSet(c, "lastRouteFetchTime", currentTime) EXCEPT
                     !.fetches = @ (+) SetToBag({[start |-> start, end |-> end,
                                                  session |-> session]})]

\* PatientMapView.getDirections from the response on: try and catch.
PatientGetDirectionsResume(c, start, end, outcome) ==
    LET routeCoords == RouteCoords(Polyline(start, end))
        ok == PMapCommand(PSet(PSet(c, "routeCoordinates", routeCoords),
                               "routeInfo", LegInfo(start, end)),
                          "fitToCoordinates", <<start, end>>)
        straight(d) == PSet(PSet(d, "routeCoordinates", FallbackPoints(start, end)),
                            "routeInfo", FallbackInfo(start, end))
    IN CASE outcome = "OK" -> ok
         [] outcome = "nolegs" -> straight(PSet(c, "routeCoordinates", routeCoords))
         [] OTHER -> straight(c)

\* fetchAlertData after its await, with the row the select returned.
FetchAlertDataResume(c, data, closure) ==
    LET c1 == PSet(PSet(c, "alertDetails", data.id), "alertStatus", data.status)
        hasPatient == Truthy(data.latitude) /\ Truthy(data.longitude)
        c2 == IF hasPatient
              THEN PSet(c1, "patientLocation", NewLocation(data.latitude, data.longitude))
              ELSE c1
        ambulanceLoc == NewLocation(data.ambulance_latitude, data.ambulance_longitude)
        c3 == IF Truthy(data.ambulance_latitude) /\ Truthy(data.ambulance_longitude)
              THEN LET d1 == PSet(PSet(c2, "isAmbulanceAssigned", TRUE),
                                  "ambulanceLocation", ambulanceLoc)
                       d2 == IF Truthy(data.ambulance_last_updated)
                             THEN PSet(d1, "lastUpdated", data.ambulance_last_updated)
                             ELSE d1
                   IN IF hasPatient
                      THEN PatientGetDirections(d2, ambulanceLoc,
                               NewLocation(data.latitude, data.longitude),
                               closure.lastRouteFetchTime, closure.session)
                      ELSE d2
              ELSE PSet(c2, "isAmbulanceAssigned", FALSE)
    IN PSet(c3, "loading", FALSE)

\* The postgres_changes callback of a channel, with payload.new.
OnAlertUpdate(c, updatedAlert, closure) ==
    LET c1 == PSet(PSet(c, "alertDetails", updatedAlert.id),
                   "alertStatus", updatedAlert.status)
        hasAmbulanceLocation == Truthy(updatedAlert.ambulance_latitude)
                                /\ Truthy(updatedAlert.ambulance_longitude)
        c2 == PSet(c1, "isAmbulanceAssigned", hasAmbulanceLocation)
        newAmbulanceLocation == NewLocation(updatedAlert.ambulance_latitude,
                                            updatedAlert.ambulance_longitude)
    IN IF hasAmbulanceLocation
       THEN LET d1 == PSet(c2, "ambulanceLocation", newAmbulanceLocation)
                d2 == IF Truthy(updatedAlert.ambulance_last_updated)
                      THEN PSet(d1, "lastUpdated", updatedAlert.ambulance_last_updated)
                      ELSE d1
            IN IF closure.patientLocation # NoLoc
               THEN PatientGetDirections(d2, newAmbulanceLocation, closure.patientLocation,
                                         closure.lastRouteFetchTime, closure.session)
               ELSE d2
       ELSE c2

\* What fetchAlertData and the change callback created by one run of the
\* [alertId] effect read from the render that ran it.
PmvClosure(r, session) ==
    [session |-> session, patientLocation |-> r.patientLocation,
     lastRouteFetchTime |-> r.lastRouteFetchTime]

\* A cleanup that removes nothing.
KeepChannel(chs, session) == chs

\* The cleanup of the [alertId] effect: supabase.removeChannel(subscription).
RemoveChannel(chs, session) == {ch \in chs : ch.closure.session # session}

\* useEffect([alertId]) in a render with state r, after the cleanup of the
\* run before it (session previous; 0 when that run subscribed nothing).
PmvAlertIdEffect(c, r, alertId, previous) ==
    IF alertId = Absent
    THEN /\ PmvCommit(PSet(c, "loading", FALSE))
         /\ channels' = RemoveChannel(channels, previous)
         /\ UNCHANGED <<selects, nextSession>>
    ELSE /\ nextSession <= MaxSessions
         /\ PmvCommit(PSet(c, "loading", TRUE))
         /\ selects' = selects \cup {[alertId |-> alertId, read |-> FALSE,
                                      data |-> InitialRow(alertId, 0),
                                      closure |-> PmvClosure(r, nextSession)]}
         /\ channels' = RemoveChannel(channels, previous)
                        \cup {[alertId |-> alertId, queue |-> <<>>,
                               closure |-> PmvClosure(r, nextSession)]}
         /\ nextSession' = nextSession + 1

\* The session of the current run of the [alertId] effect, 0 if it
\* returned before subscribing.
CurrentSession == IF pmvAlertId = Absent THEN 0 ELSE nextSession - 1

PmvMount(A) ==
    /\ pmvScreen = "closed"
    /\ pmvScreen' = "mounted"
    /\ \E id \in A :
         /\ pmvAlertId' = id
         /\ PmvAlertIdEffect([PmvContext EXCEPT !.mounted = TRUE, !.alertId = id],
                             InitialPmv, id, 0)
    /\ UNCHANGED <<gate, rival, sos, boards, now, alert, mdVars, dashboard, notices, unhandled>>

\* The parent hands the mounted view another alertId: the cleanup of the
\* previous run, then the effect again.
PmvSetAlertId(A) ==
    /\ pmvScreen = "mounted"
    /\ \E id \in A \ {pmvAlertId} :
         /\ pmvAlertId' = id
         /\ PmvAlertIdEffect([PmvContext EXCEPT !.alertId = id], pmv, id, CurrentSession)
    /\ UNCHANGED <<gate, rival, sos, boards, now, alert, mdVars, dashboard, pmvScreen, notices, unhandled>>

\* The store executes the select of a fetchAlertData call.
SelectRead ==
    /\ \E q \in selects :
         /\ ~q.read
         /\ selects' = (selects \ {q})
                       \cup {[q EXCEPT !.read = TRUE, !.data = alert[q.alertId]]}
    /\ UNCHANGED <<gate, rival, sos, boards, now, alert, mdVars, dashboard, pmv, pmvAlertId, pmvScreen, pmvMap, channels,
                   pmvFetches, nextSession, notices, unhandled>>

\* fetchAlertData resumes: with the row, or with an error.
PmvFetchAlertData ==
    /\ \E q \in selects :
         /\ selects' = selects \ {q}
         /\ \/ /\ q.read
               /\ PmvCommit(FetchAlertDataResume(PmvContext, q.data, q.closure))
               /\ notices' = notices
            \/ /\ PmvCommit(PSet(PmvContext, "loading", FALSE))
               /\ notices' = notices \cup {"Error"}
    /\ UNCHANGED <<gate, rival, sos, boards, now, alert, mdVars, dashboard, pmvAlertId, pmvScreen, channels, nextSession,
                   unhandled>>

\* PmvChange with a callback that also marks the row as seen by the patient.
PmvChangeMarksRow ==
    /\ \E ch \in channels :
         /\ ch.queue # <<>>
         /\ channels' = (channels \ {ch}) \cup {[ch EXCEPT !.queue = Tail(@)]}
         /\ PmvCommit(OnAlertUpdate(PmvContext, Head(ch.queue), ch.closure))
         /\ alert' = [alert EXCEPT ![ch.alertId].status = "seen"]
    /\ UNCHANGED <<gate, rival, sos, boards, now, mdVars, dashboard, pmvAlertId, pmvScreen, selects, nextSession,
                   notices, unhandled>>

\* A channel delivers its oldest change notification to its callback.
PmvChange ==
    /\ \E ch \in channels :
         /\ ch.queue # <<>>
         /\ channels' = (channels \ {ch}) \cup {[ch EXCEPT !.queue = Tail(@)]}
         /\ PmvCommit(OnAlertUpdate(PmvContext, Head(ch.queue), ch.closure))
    /\ UNCHANGED <<gate, rival, sos, boards, now, alert, mdVars, dashboard, pmvAlertId, pmvScreen, selects, nextSession,
                   notices, unhandled>>

\* A directions request of the patient view settles.
PmvDirectionsResponse ==
    /\ \E f \in BagToSet(pmvFetches), outcome \in Outcomes :
         PmvCommit(PatientGetDirectionsResume(
                     [PmvContext EXCEPT !.fetches = @ (-) SetToBag({f})],
                     f.start, f.end, outcome))
    /\ UNCHANGED <<gate, rival, sos, boards, now, alert, mdVars, dashboard, pmvAlertId, pmvScreen, channels, selects,
                   nextSession, notices, unhandled>>

\* The render of the patient view: the MapView replaces the loading and
\* "No Alert Selected" placeholders; the ambulance marker and the route
\* polyline are drawn only while isAmbulanceAssigned.
MapShown == pmvScreen = "mounted" /\ ~pmv.loading /\ pmvAlertId # Absent

AmbulanceMarkerShown ==
    MapShown /\ pmv.ambulanceLocation # NoLoc /\ pmv.isAmbulanceAssigned

RouteShown ==
    MapShown /\ Len(pmv.routeCoordinates) > 0 /\ pmv.isAmbulanceAssigned

\* The "locate" control: fitMapToMarkers of the current render.
PmvFitMapToMarkers ==
    /\ MapShown
    /\ PmvCommit(IF pmv.patientLocation # NoLoc /\ pmv.ambulanceLocation # NoLoc
                 THEN PMapCommand(PmvContext, "fitToCoordinates",
                                  <<pmv.patientLocation, pmv.ambulanceLocation>>)
                 ELSE IF pmv.patientLocation # NoLoc
                 THEN PMapCommand(PmvContext, "animateToRegion", <<pmv.patientLocation>>)
                 ELSE PmvContext)
    /\ UNCHANGED <<gate, rival, sos, boards, now, alert, mdVars, dashboard, pmvAlertId, pmvScreen, channels,
                   selects, nextSession, notices, unhandled>>

PmvUnmount ==
    /\ pmvScreen = "mounted"
    /\ pmvScreen' = "unmounted"
    /\ channels' = RemoveChannel(channels, CurrentSession)
    /\ UNCHANGED <<gate, rival, sos, boards, now, alert, mdVars, dashboard, pmv, pmvAlertId, pmvMap, selects, pmvFetches,
                   nextSession, notices, unhandled>>

MdClosed ==
    /\ md = InitialMd
    /\ mdProps = [alertId |-> Absent, status |-> "active", dest |-> <<Absent, Absent>>]
    /\ mdRef = [alertIdRef |-> Absent, lastUpdateTimeRef |-> 0]
    /\ mdScreen = "closed"
    /\ mdMap = InitialMap
    /\ mdPermission = "pending"
    /\ trackers = {}
    /\ watchers = {}
    /\ nextTracker = 1
    /\ mdFetches = EmptyBag
    /\ mdWrites = {}

\* A responder device's position write lands on row id (the store's side
\* of updateWithCurrentLocation on another device).
AmbulanceWrite(L) ==
    /\ \E id \in AlertIds, lat \in L :
         UpdateRow(id, RowWithAmbulance(alert[id],
                         [id |-> id, ambulance_latitude |-> lat,
                          ambulance_longitude |-> Meridian,
                          ambulance_last_updated |-> now]))
    /\ UNCHANGED <<gate, rival, sos, boards, now, mdVars, dashboard, pmvVars, notices, unhandled>>

\* ------------------------------------------------------ HospitalDashboard
\* updateAlertStatus up to its first await: the row update leaves.
HUpdateAlertStatus(Ids, newStatus) ==
    /\ \E alertId \in Ids :
         /\ alert[alertId].status # newStatus
         /\ \A call \in dashboard : call.alertId # alertId
         /\ dashboard' = dashboard \cup
              {[alertId |-> alertId, newStatus |-> newStatus,
                currentAlert |-> [latitude |-> alert[alertId].latitude,
                                  longitude |-> alert[alertId].longitude]]}
    /\ UNCHANGED <<gate, rival, sos, boards, now, alert, mdVars, channels, pmvVars, notices, unhandled>>

\* navigation.navigate('MapDirections', {destinationLatitude,
\* destinationLongitude}): a closed screen opens with these params alone; an
\* open one gets them in place of its params, or merged into them.
NavigateMapDirections(currentAlert) ==
    LET dest == <<currentAlert.latitude, currentAlert.longitude>>
        fresh == [alertId |-> Absent, status |-> "active", dest |-> dest]
    IN IF mdScreen = "closed" THEN MdMountWith(fresh)
       ELSE /\ \E p \in {fresh, [mdProps EXCEPT !.dest = dest]} :
                 /\ mdProps' = p
                 /\ MdCommit(RunEffects([MdContext EXCEPT !.props = p],
                        [alertId |-> p.alertId # mdProps.alertId,
                         status |-> p.status # mdProps.status,
                         currentLocation |-> FALSE,
                         dest |-> p.dest # mdProps.dest,
                         origin |-> FALSE]))
            /\ UNCHANGED <<mdScreen, mdPermission>>

\* The update settles and updateAlertStatus resumes.
HUpdateAlertStatusResume ==
    /\ \E call \in dashboard :
         /\ dashboard' = dashboard \ {call}
         /\ \/ /\ UpdateRow(call.alertId, [alert[call.alertId] EXCEPT !.status = call.newStatus])
               /\ IF call.newStatus = "responding"
                  THEN NavigateMapDirections(call.currentAlert)
                  ELSE UNCHANGED mdVars
               /\ notices' = notices \cup {"Status Updated"}
            \/ /\ notices' = notices \cup {"Error"}
               /\ UNCHANGED <<alert, channels, mdVars>>
    /\ UNCHANGED <<gate, rival, sos, boards, now, pmvVars, unhandled>>

PmvClosed ==
    /\ pmv = InitialPmv
    /\ pmvAlertId = Absent
    /\ pmvScreen = "closed"
    /\ pmvMap = InitialMap
    /\ channels = {}
    /\ selects = {}
    /\ pmvFetches = EmptyBag
    /\ nextSession = 1
    /\ dashboard = {}

\* ------------------------------------------- a second hospital's device
\* MapDirections on the device of another hospital that was sent the same
\* notification, reduced to its params, its current position and its
\* position writes (its tracking is taken as started).
RivalClosed ==
    [screen |-> "closed",
     props |-> [alertId |-> Absent, status |-> "active", dest |-> <<Absent, Absent>>],
     currentLocation |-> NoLoc, writes |-> {}]

RivalLats == {10, 60}

RivalFrame ==
    UNCHANGED <<gate, sos, boards, now, mdVars, notices, unhandled, pmvVars, dashboard>>

\* The second hospital taps its notification.
RivalMount(P) ==
    /\ rival.screen = "closed"
    /\ \E p \in P : rival' = [RivalClosed EXCEPT !.screen = "mounted", !.props = p]
    /\ UNCHANGED <<alert, channels>>
    /\ RivalFrame

\* Its device reports a fix: setCurrentLocation, then the write effect.
RivalFix(L) ==
    /\ rival.screen = "mounted"
    /\ \E lat \in L :
         LET newLocation == NewLocation(lat, Meridian)
             c == EffectUpdateWithCurrentLocation(
                      [props |-> rival.props, writes |-> rival.writes, now |-> now],
                      [currentLocation |-> newLocation])
         IN /\ newLocation # rival.currentLocation
            /\ Cardinality(c.writes) <= MaxWrites
            /\ rival' = [rival EXCEPT !.currentLocation = newLocation, !.writes = c.writes]
    /\ UNCHANGED <<alert, channels>>
    /\ RivalFrame

\* One of its position writes settles: applied by the store, or failed.
RivalWriteDone ==
    /\ \E w \in rival.writes :
         /\ rival' = [rival EXCEPT !.writes = @ \ {w}]
         /\ \/ UpdateRow(w.id, RowWithAmbulance(alert[w.id], w))
            \/ UNCHANGED <<alert, channels>>
    /\ RivalFrame

\* The hospitals that were notified of alert 1.
Hospitals == {1, 2}

\* No dashboard has loaded its alerts.
NoBoards ==
    [h \in Hospitals |-> [status |-> "unloaded", call |-> "none", navigated |-> FALSE]]

\* No sendSOSAlerts call is under study.
NoSos == [latitude |-> Absent, longitude |-> Absent, phase |-> "none"]

\* No refresh decision is under study.
NoGate ==
    [origin |-> NoLoc, routeCoordinatesLength |-> 0, lastRouteFetchTime |-> 0,
     newLocation |-> NoLoc, responder |-> "none", patient |-> "none"]

Init ==
    /\ now = Epoch
    /\ alert = InitialAlert
    /\ MdClosed
    /\ PmvClosed
    /\ notices = {}
    /\ unhandled = {}
    /\ gate = NoGate
    /\ rival = RivalClosed
    /\ sos = NoSos
    /\ boards = NoBoards

\* ------------------------------------------------- the refresh decision
\* One refresh decision on given inputs: the state a screen is in when a
\* new position of the moving endpoint reaches it (the reference position,
\* whether a route is on display, the time of the last fetch) and the new
\* position, here GateMoves metres north of the reference.
GateElapsed == {5000, 14999, 15000, 15001, 20000}
GateMoves == {20, 29, 30, 31, 50}
GateReference == NewLocation(100, Meridian)

GateInit ==
    /\ now = Epoch
    /\ alert = InitialAlert
    /\ MdClosed
    /\ PmvClosed
    /\ notices = {}
    /\ unhandled = {}
    /\ rival = RivalClosed
    /\ sos = NoSos
    /\ boards = NoBoards
    /\ \E origin \in {NoLoc, GateReference}, length \in {0, 3},
          elapsed \in GateElapsed \cup {Epoch}, move \in GateMoves :
         gate = [origin |-> origin, routeCoordinatesLength |-> length,
                 lastRouteFetchTime |-> now - elapsed,
                 newLocation |-> NewLocation(GateReference.latitude + move, Meridian),
                 responder |-> "none", patient |-> "none"]

Answer(b) == IF b THEN "true" ELSE "false"

GateFrame ==
    UNCHANGED <<sos, boards, now, alert, mdVars, notices, unhandled, channels, pmvVars, dashboard, rival>>

\* The responder's position callback asks shouldUpdateRoute(newLoc).
ResponderDecides ==
    /\ gate.responder = "none"
    /\ gate' = [gate EXCEPT !.responder =
                   Answer(shouldUpdateRoute(gate.origin, gate.routeCoordinatesLength,
                                            gate.lastRouteFetchTime, gate.newLocation, now))]
    /\ GateFrame

\* The patient view's getDirections passes or skips on its time test.
PatientDecides ==
    /\ gate.patient = "none"
    /\ gate' = [gate EXCEPT !.patient = Answer(~TooSoon(now, gate.lastRouteFetchTime))]
    /\ GateFrame

GateNext ==
    \/ ResponderDecides
    \/ PatientDecides

SpecGate == GateInit /\ [][GateNext]_vars

RouteNext ==
    \/ MdMount(RouteProps)
    \/ MdSetParams(RouteProps)
    \/ MdPermissionResult
    \/ MdInitialFix(RouteLats)
    \/ MdWatchStart
    \/ MdFix(RouteLats)
    \/ MdDirectionsResponse
    \/ MdUnmount
    \/ Tick(RouteInstants)

TrackNext ==
    \/ MdMount(TrackProps)
    \/ MdSetParams(TrackProps)
    \/ MdPermissionResult
    \/ MdInitialFix(TrackLats)
    \/ MdWatchStart
    \/ MdFix(TrackLats)
    \/ MdWriteDone
    \/ MdUnmount
    \/ Tick(TrackInstants)

PatientNext ==
    \/ PmvMount(PatientAlertIds)
    \/ PmvSetAlertId(PatientAlertIds)
    \/ SelectRead
    \/ PmvFetchAlertData
    \/ PmvChange
    \/ PmvDirectionsResponse
    \/ PmvUnmount
    \/ AmbulanceWrite(PatientLats)

\* The responder screen, its route refresh exercised.
SpecRoute == Init /\ [][RouteNext]_vars
\* The responder screen, its position tracking and writes exercised.
SpecTrack == Init /\ [][TrackNext]_vars
\* The patient screen, with responder devices writing to the rows.
SpecPatient == Init /\ [][PatientNext]_vars
\* One device shows one screen: a run is a responder session on untouched
\* rows, or a patient session.
ViewsNext ==
    \/ /\ pmvScreen = "closed"
       /\ alert = InitialAlert
       /\ RouteNext
    \/ /\ mdScreen = "closed"
       /\ PatientNext

SpecViews == Init /\ [][ViewsNext]_vars

\* The patient screen with a clock, one responder position and one change
\* of incident.
SkipInstants == {1000}
SkipLats == {10}

PatientClockNext ==
    \/ PmvMount({1})
    \/ PmvSetAlertId({1, 2})
    \/ SelectRead
    \/ PmvFetchAlertData
    \/ PmvChange
    \/ PmvDirectionsResponse
    \/ AmbulanceWrite(SkipLats)
    \/ Tick(SkipInstants)

\* One device shows one screen: a responder session on untouched rows, or a
\* patient session with a clock.
SkipNext ==
    \/ /\ pmvScreen = "closed"
       /\ alert = InitialAlert
       /\ RouteNext
    \/ /\ mdScreen = "closed"
       /\ PatientClockNext

SpecSkip == Init /\ [][SkipNext]_vars

\* The patient watches alert 1 and uses the map control, while responder
\* devices write positions and a hospital answers the alert.
WatchNext ==
    \/ PmvMount({1})
    \/ SelectRead
    \/ PmvFetchAlertData
    \/ PmvChange
    \/ PmvDirectionsResponse
    \/ PmvFitMapToMarkers
    \/ PmvUnmount
    \/ AmbulanceWrite(PatientLats)
    \/ HUpdateAlertStatus({1}, "responding")
    \/ HUpdateAlertStatusResume

SpecWatch == Init /\ [][WatchNext]_vars

\* A responder opened from the notification moves between two positions
\* while its position writes land or fail.
FailInstants == {1000}
FailLats == {10, 50}

FailNext ==
    \/ MdMount(SyncProps)
    \/ MdPermissionResult
    \/ MdInitialFix(FailLats)
    \/ MdWatchStart
    \/ MdFix(FailLats)
    \/ MdWriteDone
    \/ MdDirectionsResponse
    \/ Tick(FailInstants)

SpecFail == Init /\ [][FailNext]_vars

\* Two hospitals were sent the notification of alert 1 and both tap it.
RivalsNext ==
    \/ MdMount(SyncProps)
    \/ MdPermissionResult
    \/ MdInitialFix(SyncLats)
    \/ MdWriteDone
    \/ MdDirectionsResponse
    \/ RivalMount(SyncProps)
    \/ RivalFix(RivalLats)
    \/ RivalWriteDone

SpecRivals == Init /\ [][RivalsNext]_vars

\* A hospital answers alert 1 from the dashboard or from the notification,
\* its device standing at one position, while the patient watches alert 1.
SyncNext ==
    \/ HUpdateAlertStatus({1}, "responding")
    \/ HUpdateAlertStatusResume
    \/ MdMount(SyncProps)
    \/ MdPermissionResult
    \/ MdInitialFix(SyncLats)
    \/ MdWatchStart
    \/ MdFix(SyncLats)
    \/ MdWriteDone
    \/ MdDirectionsResponse
    \/ PmvMount({1})
    \/ SelectRead
    \/ PmvFetchAlertData
    \/ PmvChange
    \/ PmvDirectionsResponse
    \/ Tick(SyncInstants)

\* Every request, timer, fix, write and notification is eventually served.
SyncFairness ==
    /\ WF_vars(HUpdateAlertStatusResume)
    /\ WF_vars(MdPermissionResult)
    /\ WF_vars(MdInitialFix(SyncLats))
    /\ WF_vars(MdWatchStart)
    /\ WF_vars(MdFix(SyncLats))
    /\ WF_vars(MdWriteDone)
    /\ WF_vars(MdDirectionsResponse)
    /\ WF_vars(SelectRead)
    /\ WF_vars(PmvFetchAlertData)
    /\ WF_vars(PmvChange)
    /\ WF_vars(PmvDirectionsResponse)
    /\ WF_vars(Tick(SyncInstants))

SpecSync == Init /\ [][SyncNext]_vars /\ SyncFairness

\* A hospital that follows incident 1 taps the notification of incident 2:
\* the mounted responder screen gets the new alertId and destination, and
\* restarts tracking from a render that already holds a position and a route.
DriftFirst == {[alertId |-> 1, status |-> "active", dest |-> <<1020, Meridian>>]}
DriftSecond == {[alertId |-> 2, status |-> "active", dest |-> <<2040, Meridian>>]}
DriftLats == {10, 50}
DriftInstants == {1000, 17000}

DriftNext ==
    \/ MdMount(DriftFirst)
    \/ MdSetParams(DriftSecond)
    \/ MdPermissionResult
    \/ MdInitialFix(DriftLats)
    \/ MdWatchStart
    \/ MdFix(DriftLats)
    \/ MdDirectionsResponse
    \/ Tick(DriftInstants)

SpecDrift == Init /\ [][DriftNext]_vars

\* The patient watches alert 1 from the mount on, while a responder moves
\* between two positions and the clock advances.
StaleLats == {10, 50}
StaleInstants == {1000}

StaleNext ==
    \/ PmvMount({1})
    \/ SelectRead
    \/ PmvFetchAlertData
    \/ PmvChange
    \/ PmvDirectionsResponse
    \/ AmbulanceWrite(StaleLats)
    \/ Tick(StaleInstants)

SpecStale == Init /\ [][StaleNext]_vars

\* --------------------------------------- the dashboards of two hospitals
\* Each hospital's HospitalDashboard holds in its alerts state a copy of the
\* row of alert 1, taken when it last loaded its alerts.
BoardsFrame ==
    UNCHANGED <<gate, rival, sos, now, mdVars, unhandled, pmvVars, dashboard>>

\* loadEmergencyAlerts of hospital h: setAlerts with the rows as they are.
HLoadEmergencyAlerts ==
    /\ \E h \in Hospitals :
         /\ boards[h].call = "none"
         /\ boards[h].status # alert[1].status
         /\ boards' = [boards EXCEPT ![h].status = alert[1].status]
    /\ UNCHANGED <<alert, channels, notices>>
    /\ BoardsFrame

\* renderAlertItem: the Respond button is drawn for a copy that is active,
\* the Resolve button for one that is active or responding.
ButtonShown(status, newStatus) ==
    \/ newStatus = "responding" /\ status = "active"
    \/ newStatus = "resolved" /\ status \in {"active", "responding"}

\* A button of hospital h is pressed: updateAlertStatus up to its await.
HPressStatus ==
    /\ \E h \in Hospitals, newStatus \in {"responding", "resolved"} :
         /\ boards[h].call = "none"
         /\ ButtonShown(boards[h].status, newStatus)
         /\ boards' = [boards EXCEPT ![h].call = newStatus]
    /\ UNCHANGED <<alert, channels, notices>>
    /\ BoardsFrame

\* The update of hospital h settles and updateAlertStatus resumes: the row
\* takes the new status, the device opens MapDirections when responding, the
\* copy takes the new status; or the update failed.
HStatusUpdated ==
    /\ \E h \in Hospitals :
         /\ boards[h].call # "none"
         /\ \/ /\ UpdateRow(1, [alert[1] EXCEPT !.status = boards[h].call])
               /\ boards' = [boards EXCEPT
                    ![h] = [status |-> boards[h].call, call |-> "none",
                            navigated |-> (@.navigated \/ boards[h].call = "responding")]]
               /\ notices' = notices \cup {"Status Updated"}
            \/ /\ boards' = [boards EXCEPT ![h].call = "none"]
               /\ notices' = notices \cup {"Error"}
               /\ UNCHANGED <<alert, channels>>
    /\ BoardsFrame

BoardsNext ==
    \/ HLoadEmergencyAlerts
    \/ HPressStatus
    \/ HStatusUpdated

SpecBoards == Init /\ [][BoardsNext]_vars

\* ------------------------------------------------------- sendSOSAlerts
\* The alertData a caller hands sendSOSAlerts: a position, the equator, a
\* missing value, or NaN.
SosLats == {1020, 0, Absent, NaN}
SosLons == {Meridian, Absent}

\* x || 0
OrZero(x) == IF Truthy(x) THEN x ELSE 0

\* The coordinates of alertRecord.
alertRecord(alertData) ==
    [latitude |-> OrZero(alertData.latitude), longitude |-> OrZero(alertData.longitude)]

\* A row the store does not hold yet.
NotSaved(id) ==
    [InitialRow(id, Absent) EXCEPT !.longitude = Absent, !.status = "none"]

\* sendSOSAlerts is called for incident 1, which is not saved yet.
SendInit ==
    /\ now = Epoch
    /\ alert = [InitialAlert EXCEPT ![1] = NotSaved(1)]
    /\ MdClosed
    /\ PmvClosed
    /\ notices = {}
    /\ unhandled = {}
    /\ gate = NoGate
    /\ rival = RivalClosed
    /\ boards = NoBoards
    /\ \E lat \in SosLats, lon \in SosLons :
         sos = [latitude |-> lat, longitude |-> lon, phase |-> "called"]

SosFrame ==
    UNCHANGED <<gate, rival, boards, now, mdVars, unhandled, channels, pmvVars, dashboard>>

\* sendSOSAlerts up to the insert of alertRecord: the row is saved, or no
\* hospital is near or the insert fails and the user is told.
SendSOSAlertsInsert ==
    /\ sos.phase = "called"
    /\ \/ /\ alert' = [alert EXCEPT ![1] =
                         [InitialRow(1, alertRecord(sos).latitude)
                            EXCEPT !.longitude = alertRecord(sos).longitude]]
          /\ sos' = [sos EXCEPT !.phase = "saved"]
          /\ notices' = notices
       \/ /\ sos' = [sos EXCEPT !.phase = "failed"]
          /\ notices' = notices \cup {"Error"}
          /\ alert' = alert
    /\ SosFrame

\* sendSOSNotifications: the push messages leave, their data.coordinates
\* being alertData's own latitude and longitude.
SendSOSNotifications ==
    /\ sos.phase = "saved"
    /\ sos' = [sos EXCEPT !.phase = "notified"]
    /\ UNCHANGED <<alert, notices>>
    /\ SosFrame

\* A hospital taps the notification: the response listener navigates to
\* MapDirections with the notification's coordinates and alertId.
TapNotification ==
    /\ sos.phase = "notified"
    /\ mdScreen = "closed"
    /\ MdMountWith([alertId |-> 1, status |-> "responding",
                    dest |-> <<sos.latitude, sos.longitude>>])
    /\ UNCHANGED <<gate, rival, sos, boards, now, alert, notices, unhandled,
                   channels, pmvVars, dashboard>>

\* An incident is reported, saved and notified; a hospital opens it from the
\* notification and the patient watches it once it is saved.
SendNext ==
    \/ SendSOSAlertsInsert
    \/ SendSOSNotifications
    \/ TapNotification
    \/ MdPermissionResult
    \/ MdInitialFix(SyncLats)
    \/ MdDirectionsResponse
    \/ MdWriteDone
    \/ /\ sos.phase \in {"saved", "notified"}
       /\ PmvMount({1})
    \/ SelectRead
    \/ PmvFetchAlertData
    \/ PmvChange
    \/ PmvDirectionsResponse

SpecSend == SendInit /\ [][SendNext]_vars

\* --------------------------------------------------------------- claims
\* C1: every directions fetch of MapDirections, other than one issued while
\* no route exists yet or when the destination params change, is issued
\* only when more than 15000 ms have passed since the previous fetch and the
\* new position is more than 0.03 km from the previous one.
C1_GateNeverBypassed ==
    [][BagCardinality(mdFetches') > BagCardinality(mdFetches) /\ mdScreen = "mounted"
       => \/ md.origin = NoLoc
          \/ md.routeCoordinates = <<>>
          \/ mdProps'.dest # mdProps.dest
          \/ /\ now - md.lastRouteFetchTime > RouteMinIntervalMs
             /\ getDistanceFromLatLonInKm(md'.origin.latitude, md'.origin.longitude,
                                          md.origin.latitude, md.origin.longitude)
                > RouteMinDistanceM]_vars

\* The change notification a step delivers on channel ch.
Delivers(ch) ==
    /\ ch.queue # <<>>
    /\ channels' = (channels \ {ch}) \cup {[ch EXCEPT !.queue = Tail(@)]}

\* C2: with the incident location loaded, a change event that carries a
\* responder position (here: one off the equator and the zero meridian)
\* makes that position the displayed rival position, and issues a fetch from
\* it to the incident location at least when no fetch was issued before.
C2_ChangeEventRefreshes ==
    [][\A ch \in channels :
         LET e == Head(ch.queue)
             peer == NewLocation(e.ambulance_latitude, e.ambulance_longitude)
         IN (/\ Delivers(ch)
             /\ pmvScreen = "mounted"
             /\ pmv.patientLocation # NoLoc
             /\ e.ambulance_latitude \notin {Absent, 0}
             /\ e.ambulance_longitude \notin {Absent, 0})
            => /\ pmv'.ambulanceLocation = peer
               /\ pmv.lastRouteFetchTime = 0
                  => \E f \in BagToSet(pmvFetches') :
                       f.start = peer /\ f.end = pmv.patientLocation]_vars

\* C3: a position write is issued at least 3000 ms after every write the
\* same tracker issued before it, in flight or landed.
C3_WritesThreeSecondsApart ==
    [][\A w \in mdWrites' \ mdWrites :
         /\ \A v \in mdWrites :
              w.ambulance_last_updated - v.ambulance_last_updated >= UPDATE_INTERVAL_MS
         /\ \A id \in AlertIds :
              alert[id].ambulance_last_updated # Absent
              => w.ambulance_last_updated - alert[id].ambulance_last_updated
                 >= UPDATE_INTERVAL_MS]_vars

\* The hospital has answered alert 1 with the location permission granted,
\* the patient is watching alert 1, and no position request, subscription,
\* write or row fetch has failed.
C4_Premise ==
    /\ alert[1].status = "responding"
    /\ mdScreen = "mounted"
    /\ mdPermission = "granted"
    /\ pmvScreen = "mounted"
    /\ pmvAlertId = 1
    /\ ~md.updateError
    /\ notices \cap {"Location Error", "Error"} = {}
    /\ unhandled = {}

\* A step of the devices, the store or the network is still to come.
SyncPending ==
    ENABLED (\/ HUpdateAlertStatusResume
             \/ MdPermissionResult
             \/ MdInitialFix(SyncLats)
             \/ MdWatchStart
             \/ MdFix(SyncLats)
             \/ MdWriteDone
             \/ MdDirectionsResponse
             \/ SelectRead
             \/ PmvFetchAlertData
             \/ PmvChange
             \/ PmvDirectionsResponse
             \/ Tick(SyncInstants))

\* C4: when the hospital has answered the incident and its responder stands
\* at one position, then, once every fix, write and change notification has
\* been delivered and none is to come, the record's responder position and
\* the patient view's rival position equal that position.
C4_PositionsConverge ==
    C4_Premise /\ ~SyncPending
    => /\ alert[1].ambulance_latitude \in SyncLats
       /\ pmv.ambulanceLocation.latitude \in SyncLats

\* The labels the fallback must show for a request: the straight-line
\* distance to one decimal, and ceil(distanceKm / 0.5 * 60) minutes.
ExpectedFallbackInfo(f) ==
    LET metres == Abs(f.end.latitude - f.start.latitude)
    IN [distance |-> <<"km (straight line)", (metres + 50) \div 100>>,
        duration |-> <<"mins (estimate)",
                       0 - ((0 - metres * 60) \div 500)>>]

\* C5: whatever the failure of a directions fetch, on either screen, the
\* route it leaves is exactly the two points of the request, with the
\* straight-line distance label and the ceil(distanceKm / 0.5 * 60) estimate.
C5_FailureYieldsFallback ==
    /\ mdScreen = "mounted" =>
         \A f \in BagToSet(mdFetches), outcome \in Outcomes \ {"OK"} :
           LET c == getDirectionsResume([MdContext EXCEPT !.fetches = @ (-) SetToBag({f})],
                                        f.start, f.end, outcome)
           IN /\ c.md.routeCoordinates = <<f.start, f.end>>
              /\ c.md.routeInfo = ExpectedFallbackInfo(f)
    /\ pmvScreen = "mounted" =>
         \A f \in BagToSet(pmvFetches), outcome \in Outcomes \ {"OK"} :
           LET c == PatientGetDirectionsResume(
                        [PmvContext EXCEPT !.fetches = @ (-) SetToBag({f})],
                        f.start, f.end, outcome)
           IN /\ c.pmv.routeCoordinates = <<f.start, f.end>>
              /\ c.pmv.routeInfo = ExpectedFallbackInfo([start |-> f.start, end |-> f.end])

\* C5 witness: the responder screen displays a fallback route.
C5_Witness ==
    /\ mdScreen = "mounted"
    /\ Len(md.routeCoordinates) = 2
    /\ md.routeInfo.distance # <<>>
    /\ md.routeInfo.distance[1] = "km (straight line)"

\* Coordinates and labels that one fetch outcome for one endpoint pair gives.
SameOutcome(coords, info) ==
    \/ coords = <<>> /\ info = NoInfo
    \/ /\ Len(coords) = 2
       /\ info = ExpectedFallbackInfo([start |-> coords[1], end |-> coords[2]])
    \/ /\ Len(coords) = 3
       /\ coords = RouteCoords(Polyline(coords[1], coords[3]))
       /\ info = LegInfo(coords[1], coords[3])

C7_LateResponseDiscarded ==
    [][\A f \in BagToSet(pmvFetches) :
         (pmvFetches' = pmvFetches (-) SetToBag({f}) /\ f.session # CurrentSession)
         => /\ pmv'.routeCoordinates = pmv.routeCoordinates
            /\ pmv'.routeInfo = pmv.routeInfo
            /\ pmv'.lastRouteFetchTime = pmv.lastRouteFetchTime
            /\ pmvMap' = pmvMap]_vars

\* C8: once the responder screen is torn down, no position subscription
\* that it created is active, whether created before the teardown or by a
\* start still pending at the teardown.
C8_SubscriptionReleased ==
    mdScreen = "unmounted" => watchers = {}

\* C9: the patient view holds at most one channel, for its current alertId
\* and only while mounted.
C9_OneChannelForCurrentAlert ==
    /\ Cardinality(channels) <= 1
    /\ \A ch \in channels : pmvScreen = "mounted" /\ ch.alertId = pmvAlertId
                            /\ ch.closure.session = CurrentSession

\* C9 witness: the view was handed a second alertId and holds its channel.
C9_Witness ==
    /\ pmvScreen = "mounted"
    /\ nextSession = 3
    /\ \E ch \in channels : ch.alertId = pmvAlertId

\* C10: once the permission was denied the user has been told, and no
\* position request or subscription is started afterwards.
C10_DenialTerminal ==
    [][mdPermission = "denied"
       => /\ "Location Permission Denied" \in notices
          /\ trackers' \subseteq trackers
          /\ watchers' \subseteq watchers]_vars

\* The row of incident id carries no responder position (a row never loses
\* one, so it never carried one).
NeverDispatched(rows, id) ==
    /\ rows[id].ambulance_latitude = Absent
    /\ rows[id].ambulance_longitude = Absent

\* C11: while the record of the incident the patient view shows has never
\* carried a responder position, no step issues a directions fetch, and the
\* view draws neither the ambulance marker nor a route.
C11_AwaitingDispatch ==
    [][(/\ pmvScreen' = "mounted"
        /\ pmvAlertId' # Absent
        /\ NeverDispatched(alert', pmvAlertId'))
       => /\ BagCardinality(pmvFetches') <= BagCardinality(pmvFetches)
          /\ ~AmbulanceMarkerShown'
          /\ ~RouteShown']_vars

\* The inputs of the decision under study: ms since the last fetch and
\* metres between the new position and the reference position.
GateElapsedMs == now - gate.lastRouteFetchTime
GateMovedM == gate.newLocation.latitude - GateReference.latitude

C13_SameDecision ==
    gate.responder # "none" /\ gate.patient # "none"
    => gate.responder = gate.patient

\* A step sends a directions request / receives a directions response.
Issued(before, after) == BagCardinality(after) > BagCardinality(before)
Served(before, after) == BagCardinality(after) < BagCardinality(before)

\* The change callback of channel ch, handed its oldest notification, calls
\* getDirections and the time test refuses the request.
RefusesEvent(ch) ==
    /\ pmvScreen = "mounted"
    /\ Truthy(Head(ch.queue).ambulance_latitude)
    /\ Truthy(Head(ch.queue).ambulance_longitude)
    /\ ch.closure.patientLocation # NoLoc
    /\ TooSoon(now, ch.closure.lastRouteFetchTime)

\* C14: on both screens the time of the last fetch changes only in a step
\* that sends a directions request, and a step that neither sends a request
\* nor receives a response leaves the route coordinates and labels as they
\* were; a request the patient view's time test refuses sends nothing and
\* changes neither the time of the last fetch nor the route.
C14_RefusedChangesNothing ==
    [][/\ md'.lastRouteFetchTime # md.lastRouteFetchTime => Issued(mdFetches, mdFetches')
       /\ pmv'.lastRouteFetchTime # pmv.lastRouteFetchTime => Issued(pmvFetches, pmvFetches')
       /\ ~Issued(mdFetches, mdFetches') /\ ~Served(mdFetches, mdFetches')
          => /\ md'.routeCoordinates = md.routeCoordinates
             /\ md'.routeInfo = md.routeInfo
       /\ ~Issued(pmvFetches, pmvFetches') /\ ~Served(pmvFetches, pmvFetches')
          => /\ pmv'.routeCoordinates = pmv.routeCoordinates
             /\ pmv'.routeInfo = pmv.routeInfo
       /\ \A ch \in channels :
            Delivers(ch) /\ RefusesEvent(ch)
            => /\ pmvFetches' = pmvFetches
               /\ pmv'.lastRouteFetchTime = pmv.lastRouteFetchTime
               /\ pmv'.routeCoordinates = pmv.routeCoordinates
               /\ pmv'.routeInfo = pmv.routeInfo]_vars

\* C14 witness: the view took the position of a change notification whose
\* directions request the time test refused, a second after the last fetch.
C14_Witness ==
    /\ pmvScreen = "mounted"
    /\ now > pmv.lastRouteFetchTime
    /\ pmv.lastRouteFetchTime > 0
    /\ pmv.alertDetails = pmvAlertId
    /\ pmv.lastUpdated = now
    /\ pmvFetches = EmptyBag
    /\ selects = {}
    /\ \E ch \in channels :
         /\ ch.queue = <<>>
         /\ ch.closure.patientLocation # NoLoc
         /\ TooSoon(now, ch.closure.lastRouteFetchTime)

C16_PatientNeverWrites ==
    [][(pmvVars' # pmvVars \/ \E ch \in channels : Delivers(ch))
       => alert' = alert]_vars

\* C16 witness: the patient view shows a responder position it received,
\* has fitted the map to it, and the row carries position and status from
\* the responder and the hospital.
C16_Witness ==
    /\ pmvScreen = "mounted"
    /\ pmvMap.kind = "fitToCoordinates"
    /\ pmv.ambulanceLocation # NoLoc
    /\ pmv.routeCoordinates # <<>>
    /\ alert[1].status = "responding"
    /\ alert[1].ambulance_latitude = pmv.ambulanceLocation.latitude

\* A position subscription hands its callback a fix at latitude lat.
FixDelivered(lat) ==
    \E w \in watchers : w.last # lat /\ [w EXCEPT !.last = lat] \in watchers'

\* C17: the step in which a position write fails changes nothing but the
\* updateError state: subscriptions and pending starts stay, no write is
\* issued again, no request leaves and no alert is shown; and every fix a
\* subscription delivers after a failure still becomes the current
\* position and the origin, still issues a write of that position, and
\* still issues a directions request from it.
C17_WriteFailureNotFatal ==
    [][/\ \A w \in mdWrites :
            (/\ mdScreen = "mounted"
             /\ mdWrites' = mdWrites \ {w}
             /\ alert' = alert
             /\ md'.updateError)
            => /\ watchers' = watchers
               /\ trackers' = trackers
               /\ notices' = notices
               /\ mdFetches' = mdFetches
               /\ md' = [md EXCEPT !.updateError = TRUE]
       /\ \A lat \in FailLats :
            (mdScreen = "mounted" /\ md.updateError /\ FixDelivered(lat))
            => /\ md'.currentLocation = NewLocation(lat, Meridian)
               /\ md'.origin = NewLocation(lat, Meridian)
               /\ \E v \in mdWrites' :
                    /\ v.id = mdProps.alertId
                    /\ v.ambulance_latitude = lat
                    /\ v.ambulance_last_updated = now
               /\ md.destination # NoLoc
                  => \E f \in BagToSet(mdFetches') :
                       /\ f.start = NewLocation(lat, Meridian)
                       /\ CopiesIn(f, mdFetches') > CopiesIn(f, mdFetches)]_vars

\* C17 witness: after a failed write the responder holds a new position,
\* with its write and a directions request from it in flight.
C17_Witness ==
    /\ mdScreen = "mounted"
    /\ md.updateError
    /\ watchers # {}
    /\ \E v \in mdWrites :
         /\ v.ambulance_latitude = md.currentLocation.latitude
         /\ v.ambulance_last_updated > Epoch
    /\ \E f \in BagToSet(mdFetches) : f.start = md.currentLocation
    /\ alert[1].ambulance_latitude # md.currentLocation.latitude

\* C18: no two responder devices have position writes for the same
\* incident record under way at the same time.
C18_OneWriterPerIncident ==
    \A w \in mdWrites, v \in rival.writes : w.id # v.id

\* Coordinates and labels are what a response to request f leaves: the
\* served route, or the straight line.
ResultOf(f, coords, info) ==
    \/ /\ coords = RouteCoords(Polyline(f.start, f.end))
       /\ info = LegInfo(f.start, f.end)
    \/ /\ coords = FallbackPoints(f.start, f.end)
       /\ info = FallbackInfo(f.start, f.end)

\* C19: on both screens a step either withdraws none of the requests in
\* flight (sending a request cancels nothing), or is a response that takes
\* exactly its own request out of flight; and the route a mounted screen
\* shows after a response is the result of that response, whichever
\* requests are still out and whenever they were sent.
C19_LastResponseWins ==
    [][/\ \/ mdFetches \sqsubseteq mdFetches'
          \/ \E f \in BagToSet(mdFetches) :
               /\ mdFetches' = mdFetches (-) SetToBag({f})
               /\ mdScreen = "mounted" => ResultOf(f, md'.routeCoordinates, md'.routeInfo)
       /\ \/ pmvFetches \sqsubseteq pmvFetches'
          \/ \E f \in BagToSet(pmvFetches) :
               /\ pmvFetches' = pmvFetches (-) SetToBag({f})
               /\ pmvScreen = "mounted"
                  => ResultOf(f, pmv'.routeCoordinates, pmv'.routeInfo)]_vars

\* C19 witness: every request of the responder has been answered, and the
\* route on display starts at a position the responder has since left: the
\* response to the earlier request arrived after that to the later one.
C19_Witness ==
    /\ mdScreen = "mounted"
    /\ mdFetches = EmptyBag
    /\ md.origin # NoLoc
    /\ md.routeCoordinates # <<>>
    /\ md.routeCoordinates[1] # [latitude |-> md.origin.latitude,
                                  longitude |-> md.origin.longitude]

\* The responder position of a row, when the row carries one.
HasPosition(row) ==
    row.ambulance_latitude # Absent /\ row.ambulance_longitude # Absent

\* C20: after the mounted patient view handles a change notification that
\* carries a responder position (a coordinate of 0 included), the position
\* it shows for the ambulance is that position and the ambulance counts as
\* assigned.
C20_PeerFollowsEvent ==
    [][\A ch \in channels :
         (/\ Delivers(ch)
          /\ pmvScreen = "mounted"
          /\ HasPosition(Head(ch.queue)))
         => /\ pmv'.ambulanceLocation =
                  NewLocation(Head(ch.queue).ambulance_latitude,
                              Head(ch.queue).ambulance_longitude)
            /\ pmv'.isAmbulanceAssigned]_vars

\* The directions service's answer to request f when its status is "OK":
\* the points of the overview polyline as [lat, lng] pairs, in route order,
\* and the first leg's distance.text and duration.text.
OkPoints(f) == Polyline(f.start, f.end)
OkLeg(f) == LegInfo(f.start, f.end)

\* The coordinates are the points, one for one and in their order, the first
\* number of a point as latitude and the second as longitude.
DecodedInOrder(coords, points) ==
    /\ Len(coords) = Len(points)
    /\ \A i \in 1..Len(points) :
         coords[i].latitude = points[i][1] /\ coords[i].longitude = points[i][2]

\* C21: on either screen, an OK response to a request in flight leaves as
\* route coordinates the decoded polyline points in their order as
\* (latitude, longitude), as distance and duration labels the first leg's
\* texts unchanged, and no straight-line label.
C21_OkResponseDecoded ==
    /\ mdScreen = "mounted" =>
         \A f \in BagToSet(mdFetches) :
           LET c == getDirectionsResume([MdContext EXCEPT !.fetches = @ (-) SetToBag({f})],
                                        f.start, f.end, "OK")
           IN /\ DecodedInOrder(c.md.routeCoordinates, OkPoints(f))
              /\ c.md.routeInfo.distance = OkLeg(f).distance
              /\ c.md.routeInfo.duration = OkLeg(f).duration
              /\ c.md.routeInfo.distance[1] # "km (straight line)"
    /\ pmvScreen = "mounted" =>
         \A f \in BagToSet(pmvFetches) :
           LET c == PatientGetDirectionsResume(
                        [PmvContext EXCEPT !.fetches = @ (-) SetToBag({f})],
                        f.start, f.end, "OK")
           IN /\ DecodedInOrder(c.pmv.routeCoordinates, OkPoints(f))
              /\ c.pmv.routeInfo.distance = OkLeg(f).distance
              /\ c.pmv.routeInfo.duration = OkLeg(f).duration
              /\ c.pmv.routeInfo.distance[1] # "km (straight line)"

\* C21 witness: the patient view shows the served route from the ambulance
\* position it holds to the incident, with the leg's labels, and no request
\* is out.
C21_Witness ==
    /\ pmvScreen = "mounted"
    /\ pmvFetches = EmptyBag
    /\ pmv.ambulanceLocation # NoLoc
    /\ pmv.patientLocation # NoLoc
    /\ DecodedInOrder(pmv.routeCoordinates,
                      Polyline(pmv.ambulanceLocation, pmv.patientLocation))
    /\ pmv.routeInfo = LegInfo(pmv.ambulanceLocation, pmv.patientLocation)

\* The coordinates run from the start of request f to its end: at least two
\* points, the first at f.start, the last at f.end, none beyond either.
StartToEnd(coords, f) ==
    /\ Len(coords) >= 2
    /\ coords[1] = [latitude |-> f.start.latitude, longitude |-> f.start.longitude]
    /\ coords[Len(coords)] = [latitude |-> f.end.latitude, longitude |-> f.end.longitude]
    /\ \A i \in 1..Len(coords) :
         Abs(coords[i].latitude - f.start.latitude)
           + Abs(f.end.latitude - coords[i].latitude)
         = Abs(f.end.latitude - f.start.latitude)

C23_NoErrorEscapes ==
    unhandled = {}

\* A coordinate value that is a number.
IsNumber(x) == x >= 0

\* C24: the responder's destination, and the end of every directions
\* request it sends, is a pair of numbers (never the result of a failed
\* parse, never a missing value); and when the latitude or longitude handed
\* to sendSOSAlerts is missing or not a number, the saved incident does not
\* carry 0 in its place.
C24_InvalidCoordinatesRejected ==
    /\ md.destination # NoLoc
       => IsNumber(md.destination.latitude) /\ IsNumber(md.destination.longitude)
    /\ \A f \in BagToSet(mdFetches) :
         IsNumber(f.end.latitude) /\ IsNumber(f.end.longitude)
    /\ sos.phase \in {"saved", "notified"}
       => /\ ~IsNumber(sos.latitude) => alert[1].latitude # 0
          /\ ~IsNumber(sos.longitude) => alert[1].longitude # 0

\* Subscription w hands its callback a fix at latitude lat.
FixTo(w, lat) ==
    /\ w \in watchers
    /\ w.last # lat
    /\ watchers' = (watchers \ {w}) \cup {[w EXCEPT !.last = lat]}

\* C25: when a fix reaches a callback that consults the refresh gate (it
\* holds a destination and a route) on a mounted screen that has fetched
\* before, the displacement the gate tests is the distance of the fix from
\* the responder's position at the last fetch (the origin, since every
\* fetch starts at the origin of its render), the time it tests is the time
\* since that fetch, and so a fix more than 0.03 km from that position and
\* more than 15000 ms after it passes the gate.
C25_DisplacementFromLastFetch ==
    [][\A w \in watchers, lat \in DriftLats :
         (/\ FixTo(w, lat)
          /\ mdScreen = "mounted"
          /\ md.lastRouteFetchTime > 0
          /\ w.closure.destination # NoLoc
          /\ w.closure.origin # NoLoc
          /\ w.closure.routeCoordinatesLength > 0)
         => LET moved == getDistanceFromLatLonInKm(lat, Meridian, md.origin.latitude,
                                                   md.origin.longitude)
                tested == getDistanceFromLatLonInKm(lat, Meridian,
                                                    w.closure.origin.latitude,
                                                    w.closure.origin.longitude)
            IN /\ tested = moved
               /\ w.closure.lastRouteFetchTime = md.lastRouteFetchTime
               /\ (moved > RouteMinDistanceM
                   /\ now - md.lastRouteFetchTime > RouteMinIntervalMs)
                  => shouldUpdateRoute(w.closure.origin, w.closure.routeCoordinatesLength,
                                       w.closure.lastRouteFetchTime,
                                       NewLocation(lat, Meridian), now)]_vars

\* Nothing addressed to the patient view is still to be delivered: no row
\* fetch, no change notification, no directions response.
PatientQuiet ==
    /\ selects = {}
    /\ pmvFetches = EmptyBag
    /\ \A ch \in channels : ch.queue = <<>>

\* Nothing addressed to the responder screen is still to be delivered.
ResponderQuiet ==
    /\ mdPermission # "pending"
    /\ trackers = {}
    /\ mdFetches = EmptyBag

\* C26: once every event sent to a mounted screen has been delivered and
\* none is to come, the route it displays between its two endpoints is one
\* computed, by directions or by the fallback, for that pair of endpoints.
C26_RouteConverges ==
    /\ (/\ pmvScreen = "mounted"
        /\ PatientQuiet
        /\ pmv.isAmbulanceAssigned
        /\ pmv.ambulanceLocation # NoLoc
        /\ pmv.patientLocation # NoLoc)
       => ResultOf([start |-> pmv.ambulanceLocation, end |-> pmv.patientLocation],
                   pmv.routeCoordinates, pmv.routeInfo)
    /\ (/\ mdScreen = "mounted"
        /\ ResponderQuiet
        /\ md.origin # NoLoc
        /\ md.destination # NoLoc)
       => ResultOf([start |-> md.origin, end |-> md.destination],
                   md.routeCoordinates, md.routeInfo)

\* C27: when fetchAlertData resumes on the mounted patient view with a row
\* read before the responder position the view already shows for that
\* incident was written, the view keeps that position, its time and the
\* assigned flag.
C27_NeverBackToOlder ==
    [][\A q \in selects :
         (/\ selects' = selects \ {q}
          /\ q.read
          /\ pmvScreen = "mounted"
          /\ pmv.alertDetails = q.alertId
          /\ pmv.isAmbulanceAssigned
          /\ pmv.lastUpdated # Absent
          /\ q.data.ambulance_last_updated < pmv.lastUpdated)
         => /\ pmv'.isAmbulanceAssigned
            /\ pmv'.ambulanceLocation = pmv.ambulanceLocation
            /\ pmv'.lastUpdated = pmv.lastUpdated]_vars

\* active, responding, resolved in their order.
StatusRank(status) ==
    CASE status = "active" -> 1
      [] status = "responding" -> 2
      [] status = "resolved" -> 3
      [] OTHER -> 0

\* C28: the status of an incident's record never moves back (from
\* responding to active, from resolved to anything else), whatever the
\* hospital dashboards do on their own copies of the alert.
C28_StatusOnlyForward ==
    [][\A id \in AlertIds :
         /\ StatusRank(alert'[id].status) >= StatusRank(alert[id].status)
         /\ alert[id].status = "resolved" => alert'[id].status = "resolved"]_vars

\* C29: the responder screen never holds more than one active position
\* subscription, and a step that starts tracking again for a new alertId
\* leaves no subscription active.
C29_OneSubscription ==
    [][/\ Cardinality(watchers) <= 1
       /\ Cardinality(watchers') <= 1
       /\ (mdScreen = "mounted" /\ mdProps'.alertId # mdProps.alertId
           /\ nextTracker' > nextTracker)
          => watchers' = {}]_vars

\* What the patient view draws comes from incident id: the incident
\* position is that of its row, a route drawn ends there, and an ambulance
\* is drawn only if its row carries a responder position.
ShowsOnly(id) ==
    /\ pmv.alertDetails \in {Absent, id}
    /\ pmv.patientLocation \in {NoLoc, NewLocation(alert[id].latitude, alert[id].longitude)}
    /\ RouteShown
       => pmv.routeCoordinates[Len(pmv.routeCoordinates)].latitude = alert[id].latitude
    /\ AmbulanceMarkerShown => ~NeverDispatched(alert, id)

\* The fields of the patient view's state that its render draws.
Drawn(r) ==
    <<r.alertDetails, r.alertStatus, r.patientLocation, r.ambulanceLocation,
      r.isAmbulanceAssigned, r.routeCoordinates, r.routeInfo>>

\* C30: whenever the mounted patient view draws its map for an alertId,
\* what it draws comes from that incident only; and the response to a row
\* fetch or a directions fetch started for another alertId changes nothing
\* of what is drawn.
C30_NewIncidentOnly ==
    [][/\ MapShown' => ShowsOnly(pmvAlertId)'
       /\ \A q \in selects :
            (selects' = selects \ {q} /\ pmvScreen = "mounted" /\ q.alertId # pmvAlertId)
            => Drawn(pmv') = Drawn(pmv)
       /\ \A f \in BagToSet(pmvFetches) :
            (/\ pmvFetches' = pmvFetches (-) SetToBag({f})
             /\ pmvScreen = "mounted"
             /\ f.session # CurrentSession)
            => Drawn(pmv') = Drawn(pmv)]_vars

====
